---- MODULE Spec2Model ----
(***************************************************************************)
(* MedGuardian API (src/main.py): one FastAPI endpoint that gathers drug   *)
(* information per medication, asks a text generation service for a risk   *)
(* narrative, classifies the narrative by keyword and assembles a          *)
(* response.  The process reads two credentials once at start; when either *)
(* is missing every outbound call is replaced by a local mock.             *)
(*                                                                         *)
(* Text that the code inspects character by character (the narrative, the  *)
(* allergy names that are joined into it, the classifier keywords) is a     *)
(* sequence of one-character strings.  Drug names and the patient id are    *)
(* only passed along and stay atomic strings.                               *)
(*                                                                         *)
(* A handler runs from one await to the next without interruption, so the  *)
(* actions split process_patient_data at its awaits on the network.        *)
(* Handlers of different requests share nothing but the start-up values    *)
(* (MOCK_MODE and the keys), which nothing writes: one handler in flight   *)
(* at a time shows every behaviour a request can have.                     *)
(***************************************************************************)
EXTENDS Integers, Sequences, FiniteSets, TLC

VARIABLES
    GROQ_API_KEY,     \* os.getenv("GROQ_API_KEY"), read once at start
    TAVILY_API_KEY,   \* os.getenv("TAVILY_API_KEY"), read once at start
    MOCK_MODE,        \* the process-wide mode flag
    pc,               \* where the handler of the current request stands
    request,          \* the validated payload as submitted (never written)
    patient_data,     \* the PatientData object the handler works on
    i,                \* position of the for loop over medications
    drug_info,        \* the list the handler extends
    prompt,           \* what analyze_risks_with_groq put in the prompt
    calls,            \* outbound HTTP calls issued for this request, in order
    returned,         \* what each completed search call came back with
    generated,        \* what the generation call came back with
    response          \* the handler's outcome

vars == <<GROQ_API_KEY, TAVILY_API_KEY, MOCK_MODE, pc, request, patient_data,
          i, drug_info, prompt, calls, returned, generated, response>>

(***************************************************************************)
(* Bounds of the model.                                                    *)
(***************************************************************************)
MaxMeds == 3        \* longest medications list submitted
MaxAllergies == 1   \* longest allergies list submitted

\* Python's None, and a str where the code may hold None instead.
None == [NoneType |-> TRUE]

Str(s) == [str |-> s]

\* All sequences over S of length at most n.
SeqUpTo(S, n) == UNION {[1..k -> S] : k \in 0..n}

Min(a, b) == IF a <= b THEN a ELSE b

(***************************************************************************)
(* Text literals of the source, character by character.                    *)
(***************************************************************************)
T_HIGH_PREFIX == <<"H", "I", "G", "H", " ", "R", "I", "S", "K", ":", " ">>
T_SEP == <<";", " ">>
T_COMMA == <<",", " ">>
T_ELDERLY == <<"E", "l", "d", "e", "r", "l", "y", " ", "p", "a", "t", "i", "e", "n", "t", " ", "-", " ", "i", "n", "c", "r", "e", "a", "s", "e", "d", " ", "r", "i", "s", "k">>
T_MULTIPLE == <<"M", "u", "l", "t", "i", "p", "l", "e", " ", "m", "e", "d", "i", "c", "a", "t", "i", "o", "n", "s", " ", "-", " ", "p", "o", "t", "e", "n", "t", "i", "a", "l", " ", "i", "n", "t", "e", "r", "a", "c", "t", "i", "o", "n", "s">>
T_ALLERGIES == <<"K", "n", "o", "w", "n", " ", "a", "l", "l", "e", "r", "g", "i", "e", "s", ":", " ">>
T_LOW == <<"L", "O", "W", " ", "R", "I", "S", "K", ":", " ", "N", "o", " ", "s", "i", "g", "n", "i", "f", "i", "c", "a", "n", "t", " ", "r", "i", "s", "k", " ", "f", "a", "c", "t", "o", "r", "s", " ", "i", "d", "e", "n", "t", "i", "f", "i", "e", "d">>
T_UNABLE == <<"U", "n", "a", "b", "l", "e", " ", "t", "o", " ", "p", "e", "r", "f", "o", "r", "m", " ", "r", "i", "s", "k", " ", "a", "n", "a", "l", "y", "s", "i", "s">>

K_high_risk == <<"h", "i", "g", "h", " ", "r", "i", "s", "k">>
K_severe == <<"s", "e", "v", "e", "r", "e">>
K_dangerous == <<"d", "a", "n", "g", "e", "r", "o", "u", "s">>
K_critical == <<"c", "r", "i", "t", "i", "c", "a", "l">>
K_emergency == <<"e", "m", "e", "r", "g", "e", "n", "c", "y">>

\* Variant: the list also holds the bare word "risk".
high_risk_terms_with_risk ==
    <<K_high_risk, K_severe, K_dangerous, K_critical, K_emergency, <<"r", "i", "s", "k">>>>

\* high_risk_terms of get_risk_level, in the order of the source.
high_risk_terms == <<K_high_risk, K_severe, K_dangerous, K_critical, K_emergency>>

(***************************************************************************)
(* str.lower, str.join and the `in` operator on strings.                   *)
(***************************************************************************)
UpperCase == <<"A", "B", "C", "D", "E", "F", "G", "H", "I", "J", "K", "L", "M", "N", "O", "P", "Q", "R", "S", "T", "U", "V", "W", "X", "Y", "Z">>
LowerCase == <<"a", "b", "c", "d", "e", "f", "g", "h", "i", "j", "k", "l", "m", "n", "o", "p", "q", "r", "s", "t", "u", "v", "w", "x", "y", "z">>

\* The lower-case letter of each upper-case letter.
ToLower ==
    [c \in {UpperCase[k] : k \in DOMAIN UpperCase} |->
        LowerCase[CHOOSE k \in DOMAIN UpperCase : UpperCase[k] = c]]

\* Variant: the text is not lower-cased.
lower_char_kept(c) == c

lower_char(c) == IF c \in DOMAIN ToLower THEN ToLower[c] ELSE c

\* s.lower()
lower(s) == [k \in 1..Len(s) |-> lower_char(s[k])]

\* term in s
contains(s, term) ==
    \E p \in 1..(Len(s) - Len(term) + 1) :
        \A j \in 1..Len(term) : s[p + j - 1] = term[j]

\* sep.join(parts)
RECURSIVE join(_, _)
join(sep, parts) ==
    IF Len(parts) = 0 THEN <<>>
    ELSE IF Len(parts) = 1 THEN parts[1]
    ELSE parts[1] \o sep \o join(sep, Tail(parts))

(***************************************************************************)
(* The inputs: the environment at start, the requests, and what the two    *)
(* outbound services may answer.                                           *)
(***************************************************************************)
\* os.getenv gives None for an unset variable, else its value (maybe empty).
EnvValues == {None, Str(""), Str("secret")}

\* Medications lists are the beginnings of this one (it names a drug twice).
Catalogue == <<"warfarin", "aspirin", "warfarin", "metformin", "lisinopril">>

MedicationLists == {SubSeq(Catalogue, 1, n) : n \in 0..MaxMeds}

A_sulfa == <<"s", "u", "l", "f", "a">>
A_Severe == <<"S", "e", "v", "e", "r", "e">>
AllergyNames == {A_sulfa, A_Severe}

Ages == {30, 65, 66}

GivenVitals == [SpO2 |-> 99, heart_rate |-> 70]

\* The payloads the validator lets through (class PatientData).
PatientData ==
    [patient_id : {"MH-001"},
     age : Ages,
     medications : MedicationLists,
     allergies : SeqUpTo(AllergyNames, MaxAllergies),
     vitals : {None, GivenVitals}]

\* The k-th result the search service holds for a drug.
ApiResult(drug, k) == [title |-> drug, content |-> k, url |-> "drugs.com"]

\* How many results the search service may send for one query.
ResultCounts == {0, 1, 3}

\* What a search call can come back with: an exception out of client.get
\* (timeout, transport error) or raise_for_status (non-2xx status), or a 2xx
\* JSON body whose "results" holds n entries.
SearchOutcomes(drug) ==
    {[kind |-> "timeout"], [kind |-> "status"], [kind |-> "transport"]}
    \cup {[kind |-> "ok", results |-> [k \in 1..n |-> ApiResult(drug, k)]] :
            n \in ResultCounts}

\* What the except clause sees of an outcome: every failure is an Exception.
Raised(outcome) == outcome.kind # "ok"

Observed(outcome) == IF Raised(outcome) THEN [kind |-> "raised"] ELSE outcome

G_HighRisk == <<"H", "i", "g", "h", " ", "R", "i", "s", "k">>
G_SEVERE == <<"S", "E", "V", "E", "R", "E">>
G_dangerous == <<"d", "a", "n", "g", "e", "r", "o", "u", "s">>
G_Critical == <<"C", "r", "i", "t", "i", "c", "a", "l">>
G_EMERGENCY == <<"E", "M", "E", "R", "G", "E", "N", "C", "Y">>
G_highrisk == <<"h", "i", "g", "h", "r", "i", "s", "k">>
G_persevered == <<"p", "e", "r", "s", "e", "v", "e", "r", "e", "d">>

\* Narratives the generation service may write.
GeneratedTexts ==
    {G_HighRisk, G_SEVERE, G_dangerous, G_Critical, G_EMERGENCY,
     G_highrisk, G_persevered, <<>>}

\* What the generation call can come back with: an exception out of
\* client.post or raise_for_status, a 2xx body in which
\* choices[0].message.content cannot be reached, or a 2xx body in which it
\* is a string or JSON null.
GenerationOutcomes ==
    {[kind |-> "timeout"], [kind |-> "status"], [kind |-> "transport"],
     [kind |-> "no_content"]}
    \cup {[kind |-> "ok", content |-> Str(t)] : t \in GeneratedTexts}
    \cup {[kind |-> "ok", content |-> None]}

(***************************************************************************)
(* The functions of main.py.                                               *)
(***************************************************************************)
\* Lines 16-21: the mode flag from the two keys (`not key` holds for None
\* and for the empty string).
Falsy(v) == v = None \/ v = Str("")

\* Variant: mock mode only when both keys are missing.
MockModeOf_both(groq, tavily) == Falsy(groq) /\ Falsy(tavily)

MockModeOf(groq, tavily) == Falsy(groq) \/ Falsy(tavily)

mock_drug_info(drug_name) ==
    <<[title |-> drug_name, content |-> 0, url |-> "https://example.com/drugs"]>>

\* Variant: the elderly rule fires from 65 on.
mock_risk_analysis_from_65(pd) ==
    LET r1 == IF pd.age >= 65 THEN <<T_ELDERLY>> ELSE <<>>
        r2 == IF Len(pd.medications) > 2 THEN <<T_MULTIPLE>> ELSE <<>>
        r3 == IF pd.allergies # <<>>
              THEN <<T_ALLERGIES \o join(T_COMMA, pd.allergies)>>
              ELSE <<>>
        risks == r1 \o r2 \o r3
    IN  IF risks # <<>> THEN T_HIGH_PREFIX \o join(T_SEP, risks) ELSE T_LOW

\* Variant: the multiple-medications rule fires from two medications on.
mock_risk_analysis_from_two(pd) ==
    LET r1 == IF pd.age > 65 THEN <<T_ELDERLY>> ELSE <<>>
        r2 == IF Len(pd.medications) >= 2 THEN <<T_MULTIPLE>> ELSE <<>>
        r3 == IF pd.allergies # <<>>
              THEN <<T_ALLERGIES \o join(T_COMMA, pd.allergies)>>
              ELSE <<>>
        risks == r1 \o r2 \o r3
    IN  IF risks # <<>> THEN T_HIGH_PREFIX \o join(T_SEP, risks) ELSE T_LOW

mock_risk_analysis(pd) ==
    LET r1 == IF pd.age > 65 THEN <<T_ELDERLY>> ELSE <<>>
        r2 == IF Len(pd.medications) > 2 THEN <<T_MULTIPLE>> ELSE <<>>
        r3 == IF pd.allergies # <<>>
              THEN <<T_ALLERGIES \o join(T_COMMA, pd.allergies)>>
              ELSE <<>>
        risks == r1 \o r2 \o r3
    IN  IF risks # <<>> THEN T_HIGH_PREFIX \o join(T_SEP, risks) ELSE T_LOW

\* Variant: the results are not cut to two.
search_result_uncut(outcome) ==
    IF Raised(outcome) THEN <<>> ELSE outcome.results

\* Lines 83-90 of search_drug_info: what the live branch returns for what
\* came back from the network.
search_result(outcome) ==
    IF Raised(outcome)
    THEN <<>>
    ELSE SubSeq(outcome.results, 1, Min(2, Len(outcome.results)))

\* Variant: the except clause logs and returns nothing.
groq_result_no_fallback(outcome) ==
    IF Raised(outcome) THEN None ELSE outcome.content

\* Lines 126-138 of analyze_risks_with_groq: what the live branch returns
\* for what came back from the network.
groq_result(outcome) ==
    IF Raised(outcome) THEN Str(T_UNABLE) ELSE outcome.content

\* Lines 102-117: the parts the prompt embeds.
build_prompt(pd, info) ==
    [patient_id |-> pd.patient_id,
     age |-> pd.age,
     medications |-> pd.medications,
     allergies |-> IF pd.allergies # <<>> THEN join(T_COMMA, pd.allergies)
                   ELSE <<"N", "o", "n", "e">>,
     vitals |-> pd.vitals,
     drug_info |-> info]

get_risk_level(analysis) ==
    LET lowered == lower(analysis)
    IN  IF \E t \in DOMAIN high_risk_terms : contains(lowered, high_risk_terms[t])
        THEN "HIGH RISK" ELSE "LOW RISK"

\* Variant: the response counts the drug information gathered.
finish_counts_info(pd, risk_analysis) ==
    IF risk_analysis = None
    THEN [status_code |-> 500]
    ELSE [status_code |-> 200,
          patient_id |-> pd.patient_id,
          risk_level |-> get_risk_level(risk_analysis.str),
          risk_analysis |-> risk_analysis.str,
          analyzed_medications |-> Len(drug_info),
          mode |-> IF MOCK_MODE THEN "MOCK" ELSE "LIVE"]

\* Lines 162-173: classification and assembly; analysis.lower() raises for
\* anything but a string and the handler turns that into HTTP 500.  The
\* timestamp (line 169) is the wall clock at assembly, which nothing reads;
\* the payload is modelled without it.
finish(pd, risk_analysis) ==
    IF risk_analysis = None
    THEN [status_code |-> 500]
    ELSE [status_code |-> 200,
          patient_id |-> pd.patient_id,
          risk_level |-> get_risk_level(risk_analysis.str),
          risk_analysis |-> risk_analysis.str,
          analyzed_medications |-> Len(pd.medications),
          mode |-> IF MOCK_MODE THEN "MOCK" ELSE "LIVE"]

(***************************************************************************)
(* The state machine.                                                      *)
(***************************************************************************)
Init ==
    /\ GROQ_API_KEY \in EnvValues
    /\ TAVILY_API_KEY \in EnvValues
    /\ MOCK_MODE = MockModeOf(GROQ_API_KEY, TAVILY_API_KEY)
    /\ pc = "idle"
    /\ request = None
    /\ patient_data = None
    /\ i = 0
    /\ drug_info = <<>>
    /\ prompt = None
    /\ calls = <<>>
    /\ returned = <<>>
    /\ generated = None
    /\ response = None

\* Variant: missing vitals are left as they are.
with_vitals_skipped(pd) == pd

\* Lines 150-151: the placeholder for missing vitals.
with_vitals(pd) ==
    IF pd.vitals = None
    THEN [pd EXCEPT !.vitals = [SpO2 |-> 98, heart_rate |-> 72]]
    ELSE pd

\* A validated payload reaches process_patient_data, which runs up to the
\* for loop (lines 146-155).
Receive(req) ==
    /\ pc = "idle"
    /\ request' = req
    /\ patient_data' = with_vitals(req)
    /\ drug_info' = <<>>
    /\ i' = 1
    /\ prompt' = None
    /\ calls' = <<>>
    /\ returned' = <<>>
    /\ generated' = None
    /\ response' = None
    /\ pc' = "gather"
    /\ UNCHANGED <<GROQ_API_KEY, TAVILY_API_KEY, MOCK_MODE>>

\* Lines 157-158.
extend(list, info) == IF info # <<>> THEN list \o info ELSE list

\* One iteration of the loop in mock mode (lines 72-73, 156-158).
SearchMock ==
    /\ pc = "gather"
    /\ i <= Len(patient_data.medications)
    /\ MOCK_MODE
    /\ drug_info' = extend(drug_info, mock_drug_info(patient_data.medications[i]))
    /\ i' = i + 1
    /\ UNCHANGED <<GROQ_API_KEY, TAVILY_API_KEY, MOCK_MODE, pc, request,
                   patient_data, prompt, calls, returned, generated, response>>

\* One iteration in live mode, up to the await on client.get (lines 75-85).
SearchIssue ==
    /\ pc = "gather"
    /\ i <= Len(patient_data.medications)
    /\ ~MOCK_MODE
    /\ calls' = Append(calls, [to |-> "search", drug |-> patient_data.medications[i]])
    /\ pc' = "search_wait"
    /\ UNCHANGED <<GROQ_API_KEY, TAVILY_API_KEY, MOCK_MODE, request, patient_data,
                   i, drug_info, prompt, returned, generated, response>>

\* Variant: a failed search is issued again.
SearchReturn_retry(outcome) ==
    /\ pc = "search_wait"
    /\ returned' = Append(returned, Observed(outcome))
    /\ drug_info' = extend(drug_info, search_result(outcome))
    /\ i' = IF Raised(outcome) THEN i ELSE i + 1
    /\ pc' = "gather"
    /\ UNCHANGED <<GROQ_API_KEY, TAVILY_API_KEY, MOCK_MODE, request, patient_data,
                   prompt, calls, generated, response>>

\* The search call completes; the rest of the iteration (lines 86-90,
\* 157-158).
SearchReturn(outcome) ==
    /\ pc = "search_wait"
    /\ returned' = Append(returned, Observed(outcome))
    /\ drug_info' = extend(drug_info, search_result(outcome))
    /\ i' = i + 1
    /\ pc' = "gather"
    /\ UNCHANGED <<GROQ_API_KEY, TAVILY_API_KEY, MOCK_MODE, request, patient_data,
                   prompt, calls, generated, response>>

\* After the loop in mock mode: lines 94-95 and 161-173.
AnalyzeMock ==
    /\ pc = "gather"
    /\ i > Len(patient_data.medications)
    /\ MOCK_MODE
    /\ response' = finish(patient_data, Str(mock_risk_analysis(patient_data)))
    /\ pc' = "done"
    /\ UNCHANGED <<GROQ_API_KEY, TAVILY_API_KEY, MOCK_MODE, request, patient_data,
                   i, drug_info, prompt, calls, returned, generated>>

\* After the loop in live mode, up to the await on client.post (lines
\* 97-133).
AnalyzeIssue ==
    /\ pc = "gather"
    /\ i > Len(patient_data.medications)
    /\ ~MOCK_MODE
    /\ prompt' = build_prompt(patient_data, drug_info)
    /\ calls' = Append(calls, [to |-> "generate", drug |-> ""])
    /\ pc' = "groq_wait"
    /\ UNCHANGED <<GROQ_API_KEY, TAVILY_API_KEY, MOCK_MODE, request, patient_data,
                   i, drug_info, returned, generated, response>>

\* The generation call completes; lines 134-138 and 162-173.
AnalyzeReturn(outcome) ==
    /\ pc = "groq_wait"
    /\ generated' = outcome
    /\ response' = finish(patient_data, groq_result(outcome))
    /\ pc' = "done"
    /\ UNCHANGED <<GROQ_API_KEY, TAVILY_API_KEY, MOCK_MODE, request, patient_data,
                   i, drug_info, prompt, calls, returned>>

\* The response is sent and the request's record is discarded.
Respond ==
    /\ pc = "done"
    /\ pc' = "idle"
    /\ request' = None
    /\ patient_data' = None
    /\ i' = 0
    /\ drug_info' = <<>>
    /\ prompt' = None
    /\ calls' = <<>>
    /\ returned' = <<>>
    /\ generated' = None
    /\ response' = None
    /\ UNCHANGED <<GROQ_API_KEY, TAVILY_API_KEY, MOCK_MODE>>

Next ==
    \/ \E req \in PatientData : Receive(req)
    \/ SearchMock
    \/ SearchIssue
    \/ /\ pc = "search_wait"
       /\ \E o \in SearchOutcomes(patient_data.medications[i]) : SearchReturn(o)
    \/ AnalyzeMock
    \/ AnalyzeIssue
    \/ \E o \in GenerationOutcomes : AnalyzeReturn(o)
    \/ Respond

Spec == Init /\ [][Next]_vars

(***************************************************************************)
(* Vocabulary of the properties.                                           *)
(***************************************************************************)
Live == ~MOCK_MODE

InFlight == pc \in {"gather", "search_wait", "groq_wait", "done"}

Succeeded == pc = "done" /\ response.status_code = 200

\* Either credential is missing: unset, or set to the empty string.
CredentialMissing == GROQ_API_KEY \in {None, Str("")} \/ TAVILY_API_KEY \in {None, Str("")}

Placeholder == [SpO2 |-> 98, heart_rate |-> 72]

\* What one completed search contributes: nothing when it failed, else the
\* first two results (all of them when there are fewer).
Contribution(obs) ==
    IF obs.kind = "raised" THEN <<>>
    ELSE [k \in 1..(IF Len(obs.results) < 2 THEN Len(obs.results) ELSE 2) |-> obs.results[k]]

RECURSIVE Contributions(_)
Contributions(history) ==
    IF history = <<>> THEN <<>>
    ELSE Contributions(SubSeq(history, 1, Len(history) - 1))
         \o Contribution(history[Len(history)])

\* C1: in live mode the drug information is, at every point of the loop and
\* in the prompt handed to the narrator, the concatenation in medication
\* order of each completed search's contribution; the k-th completed search
\* is the one for the k-th medication, and by the time the prompt is built
\* every medication has one.
C1_DrugInfoIsConcatenation ==
    (Live /\ InFlight) =>
        /\ drug_info = Contributions(returned)
        /\ Len(returned) <= Len(request.medications)
        /\ \A k \in 1..Len(returned) :
              returned[k].kind = "ok" =>
                  \A r \in 1..Len(returned[k].results) :
                      returned[k].results[r] = ApiResult(request.medications[k], r)
        /\ prompt # None =>
              /\ Len(returned) = Len(request.medications)
              /\ prompt.drug_info = Contributions(returned)

C1_Witness ==
    /\ Live
    /\ pc = "groq_wait"
    /\ Len(returned) = 3
    /\ returned[1].kind = "ok" /\ Len(returned[1].results) = 3
    /\ returned[2].kind = "raised"
    /\ returned[3].kind = "ok" /\ Len(returned[3].results) = 1
    /\ prompt.drug_info = <<ApiResult("warfarin", 1), ApiResult("warfarin", 2),
                            ApiResult("warfarin", 1)>>

\* The generation call either failed or answered with a narrative string
\* (a 2xx body whose content is JSON null is neither).
GenerationFailedOrAnswered ==
    generated.kind # "ok" \/ generated.content # None

C3_OfflineNeverCalls ==
    CredentialMissing =>
        /\ calls = <<>>
        /\ pc \notin {"search_wait", "groq_wait"}
        /\ Succeeded => response.mode = "MOCK"

C3_Witness ==
    /\ GROQ_API_KEY = None
    /\ TAVILY_API_KEY = Str("secret")
    /\ Succeeded
    /\ Len(request.medications) = 2
    /\ Len(drug_info) = 2
    /\ response.mode = "MOCK"

SearchCall(drug) == [to |-> "search", drug |-> drug]

GenerateCall == [to |-> "generate", drug |-> ""]

\* search(m1), ..., search(mn), generate
ExpectedCalls(meds) ==
    [k \in 1..(Len(meds) + 1) |-> IF k <= Len(meds) THEN SearchCall(meds[k]) ELSE GenerateCall]

\* C4: in live mode the outbound calls of a request are search(m1), ...,
\* search(mn), generate, each issued once, the next only when the one before
\* has completed, the generation call only when all n searches have.
C4_CallsInOrderOnce ==
    (Live /\ InFlight) =>
        LET n == Len(request.medications)
            done == Len(returned)      \* searches completed
        IN  /\ Len(calls) <= n + 1
            /\ calls = SubSeq(ExpectedCalls(request.medications), 1, Len(calls))
            /\ pc = "gather" => Len(calls) = done /\ generated = None
            /\ pc = "search_wait" => Len(calls) = done + 1 /\ generated = None
            /\ pc = "groq_wait" => Len(calls) = n + 1 /\ done = n /\ generated = None
            /\ pc = "done" => Len(calls) = n + 1 /\ done = n /\ generated # None

C4_Witness ==
    /\ Live
    /\ pc = "done"
    /\ calls = <<SearchCall("warfarin"), SearchCall("aspirin"), SearchCall("warfarin"),
                 GenerateCall>>
    /\ returned[1].kind = "raised"
    /\ returned[3].kind = "raised"
    /\ generated.kind = "status"

\* The character c is the keyword character k, in either case.
SameLetter(c, k) ==
    c = k \/ \E n \in DOMAIN LowerCase : LowerCase[n] = k /\ UpperCase[n] = c

\* The text holds the keyword somewhere, case ignored.
Mentions(text, keyword) ==
    \E start \in 0..(Len(text) - Len(keyword)) :
        \A j \in 1..Len(keyword) : SameLetter(text[start + j], keyword[j])

Keywords == {K_high_risk, K_severe, K_dangerous, K_critical, K_emergency}

\* C5: the label of every success response is "HIGH RISK" exactly when the
\* narrative, case ignored, holds one of the five keywords, and "LOW RISK"
\* otherwise, whatever the mode and the patient.
C5_LabelIsKeywordMatch ==
    Succeeded =>
        /\ response.risk_level \in {"HIGH RISK", "LOW RISK"}
        /\ response.risk_level = "HIGH RISK"
              <=> \E k \in Keywords : Mentions(response.risk_analysis, k)

C5_Witness ==
    /\ Live
    /\ Succeeded
    /\ request.age = 30 /\ request.medications = <<>> /\ request.allergies = <<>>
    /\ response.risk_analysis = <<"p", "e", "r", "s", "e", "v", "e", "r", "e", "d">>
    /\ response.risk_level = "HIGH RISK"

\* The narrative the offline rules give for an age, a number of medications
\* and an allergies list.
OfflineNarrative(age, nmeds, allergies) ==
    LET elderly == age > 65
        multiple == nmeds > 2
        allergic == Len(allergies) > 0
        known == T_ALLERGIES \o join(T_COMMA, allergies)
    IN  CASE elderly /\ multiple /\ allergic ->
                 T_HIGH_PREFIX \o T_ELDERLY \o T_SEP \o T_MULTIPLE \o T_SEP \o known
          [] elderly /\ multiple /\ ~allergic ->
                 T_HIGH_PREFIX \o T_ELDERLY \o T_SEP \o T_MULTIPLE
          [] elderly /\ ~multiple /\ allergic ->
                 T_HIGH_PREFIX \o T_ELDERLY \o T_SEP \o known
          [] elderly /\ ~multiple /\ ~allergic -> T_HIGH_PREFIX \o T_ELDERLY
          [] ~elderly /\ multiple /\ allergic ->
                 T_HIGH_PREFIX \o T_MULTIPLE \o T_SEP \o known
          [] ~elderly /\ multiple /\ ~allergic -> T_HIGH_PREFIX \o T_MULTIPLE
          [] ~elderly /\ ~multiple /\ allergic -> T_HIGH_PREFIX \o known
          [] OTHER -> T_LOW

\* C6: in offline mode the narrative is the one the three rules give for the
\* submitted age, number of medications and allergies: elderly iff age > 65,
\* multiple medications iff more than two, allergies iff any is declared.
C6_OfflineNarrative ==
    (MOCK_MODE /\ pc = "done") =>
        /\ response.status_code = 200
        /\ response.risk_analysis =
              OfflineNarrative(request.age, Len(request.medications), request.allergies)

C6_Witness ==
    /\ MOCK_MODE
    /\ Succeeded
    /\ request.age = 66
    /\ Len(request.medications) = 3
    /\ request.allergies = <<A_sulfa>>
    /\ response.risk_analysis =
          T_HIGH_PREFIX \o T_ELDERLY \o T_SEP \o T_MULTIPLE \o T_SEP \o T_ALLERGIES \o A_sulfa

\* C7 as stated: vitals omitted are replaced by the placeholder before the
\* gather and narrate steps, and the response shows vitals equal to the
\* placeholder.
C7_AsStated ==
    (InFlight /\ request.vitals = None) =>
        /\ patient_data.vitals = Placeholder
        /\ Succeeded => ("vitals" \in DOMAIN response /\ response.vitals = Placeholder)

\* C7, amended: vitals omitted are replaced by the placeholder before the
\* gather and narrate steps, so every step works on the placeholder and the
\* live prompt embeds it; given vitals are kept; the response carries no
\* vitals.
C7_PlaceholderBeforeGather ==
    InFlight =>
        /\ request.vitals = None => patient_data.vitals = Placeholder
        /\ request.vitals # None => patient_data.vitals = request.vitals
        /\ prompt # None => prompt.vitals = patient_data.vitals
        /\ pc = "done" => "vitals" \notin DOMAIN response

C7_Witness ==
    /\ Live
    /\ Succeeded
    /\ request.vitals = None
    /\ prompt.vitals = [SpO2 |-> 98, heart_rate |-> 72]

\* C8: every success response counts the submitted medications, not the
\* medications for which drug information was obtained.
C8_CountsSubmitted ==
    Succeeded => response.analyzed_medications = Len(request.medications)

C8_Witness ==
    /\ Live
    /\ Succeeded
    /\ request.medications = <<"warfarin", "aspirin", "warfarin">>
    /\ returned[1].kind = "raised"
    /\ returned[2].kind = "ok" /\ returned[2].results = <<>>
    /\ Len(drug_info) = 1
    /\ response.analyzed_medications = 3

\* C9: in live mode a failed generation call gives a success response whose
\* narrative is the fallback sentence and whose label is "LOW RISK".
C9_FallbackIsLowRisk ==
    (Live /\ pc = "done" /\ generated.kind # "ok") =>
        /\ response.status_code = 200
        /\ response.risk_analysis = T_UNABLE
        /\ response.risk_level = "LOW RISK"

C9_Witness ==
    /\ Live
    /\ Succeeded
    /\ generated.kind = "no_content"
    /\ request.age = 66
    /\ Len(request.medications) = 3
    /\ request.allergies = <<A_Severe>>
    /\ response.risk_level = "LOW RISK"

StartsWith(text, prefix) ==
    Len(text) >= Len(prefix) /\ SubSeq(text, 1, Len(prefix)) = prefix

\* C10: in offline mode the label is "HIGH RISK" exactly when a rule fired
\* and "LOW RISK" exactly when none did, and it is the label the narrative
\* starts with.
C10_LabelAgreesWithRules ==
    (MOCK_MODE /\ pc = "done") =>
        LET fired == \/ request.age > 65
                     \/ Len(request.medications) > 2
                     \/ request.allergies # <<>>
        IN  /\ response.risk_level = "HIGH RISK" <=> fired
            /\ response.risk_level = "LOW RISK" <=> ~fired
            /\ response.risk_level = "HIGH RISK"
                  <=> StartsWith(response.risk_analysis, <<"H", "I", "G", "H", " ", "R", "I", "S", "K">>)
            /\ response.risk_level = "LOW RISK"
                  <=> StartsWith(response.risk_analysis, <<"L", "O", "W", " ", "R", "I", "S", "K">>)

C10_Witness ==
    /\ MOCK_MODE
    /\ Succeeded
    /\ request.age = 65
    /\ Len(request.medications) = 2
    /\ request.allergies = <<>>
    /\ response.risk_level = "LOW RISK"

====
